---- MODULE Spec2Model ----
(***************************************************************************)
(* Model of the feedback backend (backend/app): the Gemini-backed          *)
(* sentiment classifier and summarizer (services/ai_service.py), the       *)
(* feedback service over the feedback table (services/feedback_service.py) *)
(* and the HTTP routes with their error mapping (api/routes.py,            *)
(* core/errors.py, main.py).                                               *)
(*                                                                         *)
(* Python values are modelled as follows.  A str is a sequence of          *)
(* one-character strings, so that strip, lower, split and the `in`         *)
(* substring test are computed and not assumed.  Python None in a          *)
(* string-valued column or field is the value None.  An Optional list or   *)
(* dict of a request body is a sequence of length at most one: <<>> is     *)
(* None and <<v>> is the value v.  A sentiment label, a source and an      *)
(* exception class are TLA+ strings.                                       *)
(***************************************************************************)
EXTENDS Integers, Sequences, FiniteSets, TLC

VARIABLES
    store,      \* the feedback table: sequence of rows in insertion order
    nextId,     \* next value of the primary-key sequence (models.py:11)
    now,        \* the database clock behind server_default=func.now()
    last,       \* the request handled last and what its caller observed
    cls,        \* harness of the classifier: input, external outcome, result
    smz,        \* harness of the summarizer: inputs, external outcome, result
    stats       \* a get_stats in progress: its position and what it has read

vars == <<store, nextId, now, last, cls, smz, stats>>

None == "None"

-----------------------------------------------------------------------------
(* Bounds of the model *)

\* rows the table may hold
MaxRecords == 2
\* ticks of the database clock
MaxTime == 1
\* pieces a classifier input text is concatenated from
MaxPieces == 2
\* texts a summarizer input list may hold
MaxTexts == 3

-----------------------------------------------------------------------------
(* core/constants.py is imported by the services and the routes but is not  *)
(* among the sources; its values are taken from the specification.          *)

VALID_SENTIMENTS == {"positive", "negative", "neutral"}

VALID_SOURCES == {"support_ticket", "survey", "app_store"}

\* "a configured cap, e.g. 50": scaled down so that a resolved set can exceed it
MAX_FEEDBACK_FOR_SUMMARY == 1

\* text[:1000] in analyze_sentiment
SNIPPET_LEN == 1000

-----------------------------------------------------------------------------
(* Python str operations *)

UpperChars ==
    <<"A","B","C","D","E","F","G","H","I","J","K","L","M","N","O","P","Q","R","S","T","U","V","W","X","Y","Z">>

LowerChars ==
    <<"a","b","c","d","e","f","g","h","i","j","k","l","m","n","o","p","q","r","s","t","u","v","w","x","y","z">>

\* str.isspace for the characters the model uses
IsSpace(c) == c \in {" ", "\n", "\t"}

LowerChar(c) ==
    IF \E i \in 1..Len(UpperChars) : UpperChars[i] = c
    THEN LowerChars[CHOOSE i \in 1..Len(UpperChars) : UpperChars[i] = c]
    ELSE c

\* str.lower()
Lower(s) == [i \in 1..Len(s) |-> LowerChar(s[i])]

SetMin(S) == CHOOSE x \in S : \A y \in S : x <= y

SetMax(S) == CHOOSE x \in S : \A y \in S : y <= x

\* str.strip(): drop leading and trailing whitespace
Strip(s) ==
    LET ink == {i \in 1..Len(s) : ~IsSpace(s[i])}
    IN  IF ink = {} THEN <<>> ELSE SubSeq(s, SetMin(ink), SetMax(ink))

\* `sub in s` for str operands
Contains(s, sub) ==
    \E i \in 1..(Len(s) - Len(sub) + 1) : SubSeq(s, i, i + Len(sub) - 1) = sub

\* s.split(): the whitespace-delimited tokens of s, in order
RECURSIVE Split(_)
Split(s) ==
    LET ink == {i \in 1..Len(s) : ~IsSpace(s[i])}
    IN  IF ink = {} THEN <<>>
        ELSE LET b == SetMin(ink)
                 stops == {j \in b..Len(s) : IsSpace(s[j])}
                 e == IF stops = {} THEN Len(s) ELSE SetMin(stops) - 1
             IN  <<SubSeq(s, b, e)>> \o Split(SubSeq(s, e + 1, Len(s)))

\* the characters of a sentiment label
LabelChars(l) ==
    CASE l = "positive" -> <<"p","o","s","i","t","i","v","e">>
      [] l = "negative" -> <<"n","e","g","a","t","i","v","e">>
      [] l = "neutral"  -> <<"n","e","u","t","r","a","l">>

-----------------------------------------------------------------------------
(* services/ai_service.py: AIService *)

negative_keywords ==
    { <<"b","a","d">>,
      <<"t","e","r","r","i","b","l","e">>,
      <<"a","w","f","u","l">>,
      <<"h","a","t","e">>,
      <<"d","i","s","a","p","p","o","i","n","t","e","d">>,
      <<"f","r","u","s","t","r","a","t","e","d">>,
      <<"b","r","o","k","e","n">>,
      <<"b","u","g">>,
      <<"e","r","r","o","r">>,
      <<"c","r","a","s","h">>,
      <<"s","l","o","w">>,
      <<"w","o","r","s","t">> }

positive_keywords ==
    { <<"l","o","v","e">>,
      <<"g","r","e","a","t">>,
      <<"e","x","c","e","l","l","e","n","t">>,
      <<"a","m","a","z","i","n","g">>,
      <<"p","e","r","f","e","c","t">>,
      <<"w","o","n","d","e","r","f","u","l">>,
      <<"f","a","n","t","a","s","t","i","c">>,
      <<"b","e","s","t">>,
      <<"h","a","p","p","y">>,
      <<"s","a","t","i","s","f","i","e","d">>,
      <<"g","o","o","d">> }

\* a vote that a tie gives to negative
fallback_ties_negative(text) ==
    LET text_lower == Lower(text)
        negative_count == Cardinality({k \in negative_keywords : Contains(text_lower, k)})
        positive_count == Cardinality({k \in positive_keywords : Contains(text_lower, k)})
    IN  IF negative_count >= positive_count THEN "negative" ELSE "positive"

\* _fallback_sentiment: each keyword counts once when it occurs in the
\* lower-cased text
fallback_sentiment(text) ==
    LET text_lower == Lower(text)
        negative_count == Cardinality({k \in negative_keywords : Contains(text_lower, k)})
        positive_count == Cardinality({k \in positive_keywords : Contains(text_lower, k)})
    IN  IF negative_count > positive_count THEN "negative"
        ELSE IF positive_count > negative_count THEN "positive"
        ELSE "neutral"

\* One record per call of self.model.generate_content: the prompt is
\* represented by the parts of it that vary.
ClassifyCall(text_snippet) ==
    [kind |-> "classify", texts |-> <<text_snippet>>, context |-> <<>>]

\* Lines 56-64 of the try block of analyze_sentiment, words being
\* response.text.strip().lower().split(): words[0] raises IndexError when the
\* answer holds no token.
AnalyzeWords(text, words) ==
    IF words = <<>> THEN [exc |-> "IndexError", value |-> None]
    ELSE IF \E l \in VALID_SENTIMENTS : LabelChars(l) = words[1]
    THEN [exc |-> None,
          value |-> CHOOSE l \in VALID_SENTIMENTS : LabelChars(l) = words[1]]
    ELSE [exc |-> None, value |-> fallback_sentiment(text)]

\* The try block of analyze_sentiment (lines 44-64).  out is what the external
\* model does: it raises, or it answers with out.text.  The block returns a
\* label or raises.
AnalyzeTry(text, out) ==
    IF out.kind = "raise" THEN [exc |-> "APIError", value |-> None]
    ELSE AnalyzeWords(text, Split(Lower(Strip(out.text))))

\* a handler that lets the IndexError of an empty answer through
AnalyzeExceptNarrow(text, exc) ==
    IF exc = "IndexError"
    THEN [value |-> None, raised |-> exc]
    ELSE [value |-> fallback_sentiment(text), raised |-> None]

\* `except Exception` of analyze_sentiment (lines 66-69): every exception of
\* the try block is answered by the fallback
AnalyzeExcept(text, exc) ==
    [value |-> fallback_sentiment(text), raised |-> None]

\* what the try statement of analyze_sentiment leaves, body being what its
\* try block did
AnalyzeOutcome(text, body) ==
    IF body.exc = None
    THEN [value |-> body.value, raised |-> None]
    ELSE AnalyzeExcept(text, body.exc)

\* the result of an analyze_sentiment that called the external model
AnalyzeReturn(text_snippet, res) ==
    [value |-> res.value, raised |-> res.raised,
     calls |-> <<ClassifyCall(text_snippet)>>]

\* a test that takes only the empty text for blank
AnalyzeBlankEmptyOnly(text) == text = <<>>

\* line 40: `if not text or not text.strip()`
AnalyzeBlank(text) == text = <<>> \/ Strip(text) = <<>>

\* analyze_sentiment: the label returned (or the exception raised) and the
\* external calls made
analyze_sentiment(text, out) ==
    IF AnalyzeBlank(text)
    THEN [value |-> "neutral", raised |-> None, calls |-> <<>>]
    ELSE AnalyzeReturn(IF Len(text) > SNIPPET_LEN
                       THEN SubSeq(text, 1, SNIPPET_LEN) ELSE text,
                       AnalyzeOutcome(text, AnalyzeTry(text, out)))

\* the fixed message of summarize_feedback for no texts (line 86)
NO_FEEDBACK_MESSAGE ==
    <<"N","o"," ","f","e","e","d","b","a","c","k"," ","a","v","a","i","l","a","b","l","e"," ","t","o"," ","s","u","m","m","a","r","i","z","e",".">>

\* a filter dict: the keys the code reads with filters.get; a key that is
\* absent reads as <<>> (search, dates) or None (source, sentiment)
EmptyFilters ==
    [search |-> <<>>, source |-> None, sentiment |-> None,
     start_date |-> <<>>, end_date |-> <<>>]

\* the hints interpolated into the prompt (lines 102-107): the dicts the routes
\* pass hold no 'date_range' key, so only the source hint can appear
ContextHints(context) ==
    IF context.source # None THEN <<context.source>> ELSE <<>>

\* feedback_block (lines 97-100): enumerate counts from 0 and the entry of
\* index i is headed "Feedback {i+1}:"
FeedbackBlock(texts_to_summarize) ==
    [k \in 1..Len(texts_to_summarize) |->
        LET i == k - 1
        IN  [number |-> i + 1, text |-> texts_to_summarize[i + 1]]]

SummarizeCall(texts_to_summarize, context) ==
    [kind |-> "summarize", texts |-> texts_to_summarize,
     block |-> FeedbackBlock(texts_to_summarize),
     context |-> ContextHints(context)]

\* the last n elements of a sequence: s[-n:]
TakeLast(s, n) == SubSeq(s, IF Len(s) < n THEN 1 ELSE Len(s) - n + 1, Len(s))

\* the first n elements of a sequence: s[:n]
Take(s, n) == SubSeq(s, 1, IF Len(s) < n THEN Len(s) ELSE n)

\* a handler that swallows the failure and answers with the fixed message
SummarizeExceptDefault(exc) ==
    [value |-> NO_FEEDBACK_MESSAGE, raised |-> None]

\* `except Exception` of summarize_feedback (lines 123-125)
SummarizeExcept(exc) ==
    [value |-> <<>>, raised |-> "AIServiceError"]

\* a test that never takes the list for empty
SummarizeNoTextsNever(feedback_texts) == FALSE

\* line 85: `if not feedback_texts`
SummarizeNoTexts(feedback_texts) == feedback_texts = <<>>

\* summarize_feedback with the cap MAX_FEEDBACK_FOR_SUMMARY configured as cap:
\* the summary returned (or the exception raised) and the external calls made
SummarizeCapped(feedback_texts, context, out, cap) ==
    IF SummarizeNoTexts(feedback_texts)
    THEN [value |-> NO_FEEDBACK_MESSAGE, raised |-> None, calls |-> <<>>]
    ELSE LET texts_to_summarize == Take(feedback_texts, cap)
             res == IF out.kind = "raise"
                    THEN SummarizeExcept("APIError")
                    ELSE [value |-> Strip(out.text), raised |-> None]
         IN  [value |-> res.value, raised |-> res.raised,
              calls |-> <<SummarizeCall(texts_to_summarize, context)>>]

\* AIService.summarize_feedback
summarize_feedback(feedback_texts, context, out) ==
    SummarizeCapped(feedback_texts, context, out, MAX_FEEDBACK_FOR_SUMMARY)

-----------------------------------------------------------------------------
(* models.py: the feedback table, and the queries of                        *)
(* services/feedback_service.py                                             *)

\* Feedback: one row of the table
Feedback(id, text, source, sentiment, created_at, extra_data) ==
    [id |-> id, text |-> text, source |-> source, sentiment |-> sentiment,
     created_at |-> created_at, extra_data |-> extra_data]

Rows(table) == {table[i] : i \in DOMAIN table}

\* the orders in which a query without ORDER BY may return the rows S
AnyOrder(S) ==
    {o \in [1..Cardinality(S) -> S] : \A i, j \in DOMAIN o : i # j => o[i] # o[j]}

\* order_by(Feedback.created_at.desc()): rows of equal created_at come in
\* either order
CreatedAtDesc(S) ==
    {o \in AnyOrder(S) :
        \A i, j \in DOMAIN o : i < j => o[i].created_at >= o[j].created_at}

\* SQL LIKE: in the pattern % stands for any run of characters and _ for
\* any one character; no escape character is given
RECURSIVE Like(_, _)
Like(s, pattern) ==
    IF pattern = <<>> THEN s = <<>>
    ELSE IF pattern[1] = "%"
    THEN \E k \in 0..Len(s) : Like(SubSeq(s, k + 1, Len(s)), Tail(pattern))
    ELSE IF s = <<>> THEN FALSE
    ELSE /\ pattern[1] = "_" \/ pattern[1] = s[1]
         /\ Like(Tail(s), Tail(pattern))

\* Feedback.text.ilike(pattern): LIKE without regard to case
ilike(text, pattern) == Like(Lower(text), Lower(pattern))

\* the filters of get_feedback (lines 31-47); a falsy argument adds no filter
Matches(r, f) ==
    /\ f.search # <<>> => ilike(r.text, <<"%">> \o f.search \o <<"%">>)
    /\ f.source # None => r.source = f.source
    /\ f.sentiment # None => r.sentiment = f.sentiment
    /\ f.start_date # <<>> => r.created_at >= f.start_date[1]
    /\ f.end_date # <<>> => r.created_at <= f.end_date[1]

\* FeedbackService.get_feedback: the (items, total) results the query can give
get_feedback(table, skip, limit, f) ==
    LET matching == {r \in Rows(table) : Matches(r, f)}
    IN  {[items |-> SubSeq(o, skip + 1,
                           IF Len(o) < skip + limit THEN Len(o) ELSE skip + limit),
          total |-> Cardinality(matching)] : o \in CreatedAtDesc(matching)}

\* FeedbackService.get_feedback_by_ids: the results the query can give
get_feedback_by_ids(table, feedback_ids) ==
    IF feedback_ids = <<>> THEN {<<>>}
    ELSE AnyOrder({r \in Rows(table) :
                      \E i \in DOMAIN feedback_ids : feedback_ids[i] = r.id})

\* a service that stores neutral whatever the classifier returned
CreateSentimentNeutral(a) == "neutral"

\* lines 94-98 of create_feedback: the label stored
CreateSentiment(a) ==
    IF a.value \notin VALID_SENTIMENTS THEN "neutral" ELSE a.value

\* a service that stores the text as submitted
CreateRowUntrimmed(id, text, source, sentiment, metadata, at) ==
    Feedback(id, text, source, sentiment, at, metadata)

\* lines 100-105 of create_feedback: the row added
CreateRow(id, text, source, sentiment, metadata, at) ==
    Feedback(id, Strip(text), source, sentiment, at, metadata)

\* a validation that accepts every source
CreateInvalidLax(text, source) ==
    text = <<>> \/ Strip(text) = <<>>

\* lines 86-90 of create_feedback: the request is rejected with ValueError
CreateInvalid(text, source) ==
    \/ source \notin VALID_SOURCES
    \/ text = <<>> \/ Strip(text) = <<>>

\* lines 107-116 of create_feedback: the write of the row feedback, calls
\* being the external calls made before it
CreateWrite(table, seq, db, calls, feedback) ==
    IF db = "commit_fails"
    THEN [raised |-> "DatabaseError", value |-> <<>>, events |-> calls,
          table |-> table, seq |-> seq]
    ELSE IF db = "refresh_fails"
    THEN [raised |-> "DatabaseError", value |-> <<>>,
          events |-> Append(calls, [kind |-> "insert", row |-> feedback]),
          table |-> Append(table, feedback), seq |-> seq + 1]
    ELSE [raised |-> None, value |-> <<feedback>>,
          events |-> Append(calls, [kind |-> "insert", row |-> feedback]),
          table |-> Append(table, feedback), seq |-> seq + 1]

\* the try statement of create_feedback (lines 92-116), a being what
\* ai_service.analyze_sentiment(text) did; an exception of it is reported
\* as DatabaseError
CreateTry(table, seq, text, source, metadata, at, db, a) ==
    IF a.raised # None
    THEN [raised |-> "DatabaseError", value |-> <<>>, events |-> a.calls,
          table |-> table, seq |-> seq]
    ELSE CreateWrite(table, seq, db, a.calls,
                     CreateRow(seq, text, source, CreateSentiment(a), metadata, at))

\* FeedbackService.create_feedback.  out is what the external model does and
\* db what the database does to the write: "ok", "commit_fails" (nothing is
\* written) or "refresh_fails" (the row is committed and the reload raises).
\* Returns the exception raised (or None), the row returned, the events of
\* the request in order, and the table and primary-key sequence afterwards.
create_feedback(table, seq, at, text, source, metadata, out, db) ==
    IF CreateInvalid(text, source)
    THEN [raised |-> "ValueError", value |-> <<>>, events |-> <<>>,
          table |-> table, seq |-> seq]
    ELSE CreateTry(table, seq, text, source, metadata, at, db,
                   analyze_sentiment(text, out))

\* a re-classification that also rewrites the stored text
ReclassifiedRowRetext(r, sentiment) ==
    [r EXCEPT !.sentiment = sentiment, !.text = Lower(r.text)]

\* line 155 of analyze_sentiment_for_feedback: the row after the assignment
ReclassifiedRow(r, sentiment) ==
    [r EXCEPT !.sentiment = sentiment]

\* a re-classification that returns the row and does not commit it
ReclassifyWriteUnsaved(table, i, a, feedback) ==
    IF a.raised # None
    THEN [raised |-> a.raised, value |-> <<>>, events |-> a.calls, table |-> table]
    ELSE [raised |-> None, value |-> <<feedback>>,
          events |-> Append(a.calls, [kind |-> "update", row |-> feedback]),
          table |-> table]

\* lines 155-157 of analyze_sentiment_for_feedback: the commit of the row
\* feedback, a being what ai_service.analyze_sentiment did
ReclassifyWrite(table, i, a, feedback) ==
    IF a.raised # None
    THEN [raised |-> a.raised, value |-> <<>>, events |-> a.calls, table |-> table]
    ELSE [raised |-> None, value |-> <<feedback>>,
          events |-> Append(a.calls, [kind |-> "update", row |-> feedback]),
          table |-> [table EXCEPT ![i] = feedback]]

\* line 155 of analyze_sentiment_for_feedback: the assignment of the label
ReclassifyAssign(table, i, a) ==
    ReclassifyWrite(table, i, a, ReclassifiedRow(table[i], a.value))

\* lines 154-158 of analyze_sentiment_for_feedback, table[i] being the row
\* found
ReclassifyFound(table, out, i) ==
    ReclassifyAssign(table, i, analyze_sentiment(table[i].text, out))

\* FeedbackService.analyze_sentiment_for_feedback
analyze_sentiment_for_feedback(table, feedback_id, out) ==
    IF \A i \in DOMAIN table : table[i].id # feedback_id
    THEN [raised |-> None, value |-> <<>>, events |-> <<>>, table |-> table]
    ELSE ReclassifyFound(table, out,
                         CHOOSE k \in DOMAIN table : table[k].id = feedback_id)

-----------------------------------------------------------------------------
(* core/errors.py and main.py: what the caller of a route observes *)

Ok(status_code) == [status |-> status_code, type |-> "ok", detail |-> ""]

\* raise HTTPException(status_code, detail): rendered by the framework
HTTPException(status_code, detail) ==
    [status |-> status_code, type |-> "http_exception", detail |-> detail]

not_found_handler(detail) ==
    [status |-> 404, type |-> "not_found", detail |-> detail]

ai_service_error_handler ==
    [status |-> 503, type |-> "ai_service_error",
     detail |-> "AI service temporarily unavailable"]

generic_exception_handler ==
    [status |-> 500, type |-> "internal_error",
     detail |-> "An unexpected error occurred"]

\* the status codes a client error is reported with
ClientError(resp) == resp.status >= 400 /\ resp.status < 500

-----------------------------------------------------------------------------
(* api/routes.py *)

\* A date of a filter dict as the request carries it: absent, the empty
\* string, a well-formed ISO-8601 string of the instant t, a malformed string,
\* or a JSON value that is no string.
DateValue(form, t) == [form |-> form, t |-> t]

NoDate == DateValue("absent", 0)

\* datetime.fromisoformat(value.replace('Z', '+00:00')) behind the truthiness
\* test of filters.get(key): the instant, no filter, or the exception raised
ParseDate(v) ==
    CASE v.form \in {"absent", "empty"} -> [exc |-> None, value |-> <<>>]
      [] v.form = "iso"                 -> [exc |-> None, value |-> <<v.t>>]
      [] v.form = "malformed"           -> [exc |-> "ValueError", value |-> <<>>]
      [] v.form = "nonstring"           -> [exc |-> "AttributeError", value |-> <<>>]

\* the filter dict {} of a request
EmptyRequestFilters ==
    [search |-> <<>>, source |-> None, sentiment |-> None,
     start_date |-> NoDate, end_date |-> NoDate]

\* the arguments of FeedbackService.get_feedback built from a filter dict and
\* its parsed dates (lines 195-204, and 65-74 for the query parameters)
ServiceFilters(filters, start_dt, end_dt) ==
    [search |-> filters.search, source |-> filters.source,
     sentiment |-> filters.sentiment, start_date |-> start_dt, end_date |-> end_dt]

\* lines 133-151 of create_feedback, s being what the service did
CreateResponse(s) ==
    [resp |-> IF s.raised = None THEN Ok(201)
              ELSE IF s.raised = "AIServiceError" THEN ai_service_error_handler
              ELSE HTTPException(500, "Failed to create feedback"),
     raised |-> s.raised, body |-> s.value, events |-> s.events,
     resolved |-> <<>>, table |-> s.table, seq |-> s.seq]

\* POST /feedback: create_feedback (lines 126-151)
create_feedback_route(table, seq, at, req, out, db) ==
    CreateResponse(create_feedback(table, seq, at, req.text, req.source,
                                   req.metadata, out, db))

\* lines 222-226 of summarize_feedback: label (None as "unknown") -> count
SentimentBreakdown(feedback_items) ==
    LET key(r) == IF r.sentiment = None THEN "unknown" ELSE r.sentiment
        keys == {key(feedback_items[i]) : i \in DOMAIN feedback_items}
    IN  [k \in keys |->
            Cardinality({i \in DOMAIN feedback_items : key(feedback_items[i]) = k})]

\* a route that answers an unresolved id list like an empty filter result
SummarizeUnresolvedIdsAsEmpty ==
    HTTPException(400, "No feedback found to summarize")

\* lines 167-171: no row has one of the ids
SummarizeUnresolvedIds ==
    HTTPException(404, "No feedback found with the provided IDs")

\* a response that counts the texts sent to the model
SummarizeCountSent(feedback_items) ==
    Len(Take(feedback_items, MAX_FEEDBACK_FOR_SUMMARY))

\* line 231: feedback_count
SummarizeCount(feedback_items) == Len(feedback_items)

\* a route failure before anything was resolved
SummarizeFailed(resp, raised) ==
    [resp |-> resp, raised |-> raised, body |-> <<>>, events |-> <<>>,
     resolved |-> <<>>]

\* lines 220-238 of summarize_feedback, s being what
\* ai_service.summarize_feedback did
SummarizeResponse(feedback_items, s) ==
    IF s.raised # None
    THEN [resp |-> ai_service_error_handler, raised |-> s.raised,
          body |-> <<>>, events |-> s.calls, resolved |-> feedback_items]
    ELSE [resp |-> Ok(200), raised |-> None,
          body |-> <<[summary |-> s.value,
                      feedback_count |-> SummarizeCount(feedback_items),
                      sentiment_breakdown |-> SentimentBreakdown(feedback_items)]>>,
          events |-> s.calls, resolved |-> feedback_items]

\* lines 209-233 of summarize_feedback, once feedback_items is resolved
SummarizeResolved(feedback_items, req, out) ==
    IF feedback_items = <<>>
    THEN SummarizeFailed(HTTPException(400, "No feedback found to summarize"),
                         "HTTPException")
    ELSE SummarizeResponse(
             feedback_items,
             summarize_feedback(
                 [i \in DOMAIN feedback_items |-> feedback_items[i].text],
                 IF req.filters # <<>> THEN req.filters[1] ELSE EmptyRequestFilters,
                 out))

\* a route that looks at the filters first
SummarizeUsesIdsFiltersFirst(req) ==
    /\ req.feedback_ids # <<>> /\ req.feedback_ids[1] # <<>>
    /\ ~(req.filters # <<>> /\ req.filters[1] # EmptyRequestFilters)

\* line 164: `if request.feedback_ids`
SummarizeUsesIds(req) ==
    req.feedback_ids # <<>> /\ req.feedback_ids[1] # <<>>

\* line 172: `elif request.filters`
SummarizeUsesFilters(req) ==
    /\ ~SummarizeUsesIds(req)
    /\ req.filters # <<>> /\ req.filters[1] # EmptyRequestFilters

\* POST /feedback/summarize: summarize_feedback (lines 154-244); the set of
\* outcomes, one per order in which the queries may return the rows
summarize_feedback_route(table, req, out) ==
    IF SummarizeUsesIds(req)
    THEN {IF feedback_items = <<>>
          THEN SummarizeFailed(SummarizeUnresolvedIds, "HTTPException")
          ELSE SummarizeResolved(feedback_items, req, out) :
             feedback_items \in get_feedback_by_ids(table, req.feedback_ids[1])}
    ELSE IF SummarizeUsesFilters(req)
    THEN LET filters == req.filters[1]
             start_dt == ParseDate(filters.start_date)
             end_dt == ParseDate(filters.end_date)
         IN  IF start_dt.exc = "ValueError"
             THEN {SummarizeFailed(
                      HTTPException(400, "Invalid start_date format in filters"),
                      "HTTPException")}
             ELSE IF start_dt.exc # None
             THEN {SummarizeFailed(HTTPException(500, "Failed to generate summary"),
                                   start_dt.exc)}
             ELSE IF end_dt.exc = "ValueError"
             THEN {SummarizeFailed(
                      HTTPException(400, "Invalid end_date format in filters"),
                      "HTTPException")}
             ELSE IF end_dt.exc # None
             THEN {SummarizeFailed(HTTPException(500, "Failed to generate summary"),
                                   end_dt.exc)}
             ELSE {SummarizeResolved(r.items, req, out) :
                      r \in get_feedback(table, 0, MAX_FEEDBACK_FOR_SUMMARY,
                                ServiceFilters(filters, start_dt.value, end_dt.value))}
    ELSE {SummarizeResolved(r.items, req, out) :
             r \in get_feedback(table, 0, MAX_FEEDBACK_FOR_SUMMARY, EmptyFilters)}

\* an offset that skips the page asked for as well
PageSkipFromPage(page, page_size) == page * page_size

\* line 39: skip
PageSkip(page, page_size) == (page - 1) * page_size

\* GET /feedback: get_feedback (lines 23-87); page and page_size have passed
\* the framework's validation.  The set of outcomes, one per order of the rows.
get_feedback_route(table, req) ==
    LET skip == PageSkip(req.page, req.page_size)
        start_dt == ParseDate(req.start_date)
        end_dt == ParseDate(req.end_date)
        failed(resp) == [resp |-> resp, raised |-> "HTTPException", body |-> <<>>,
                         events |-> <<>>, resolved |-> <<>>]
    IN  IF start_dt.exc # None
        THEN {failed(HTTPException(400, "Invalid start_date format"))}
        ELSE IF end_dt.exc # None
        THEN {failed(HTTPException(400, "Invalid end_date format"))}
        ELSE {[resp |-> Ok(200), raised |-> None,
               body |-> <<[items |-> r.items, total |-> r.total,
                           page |-> req.page, page_size |-> req.page_size]>>,
               events |-> <<>>, resolved |-> <<>>] :
                 r \in get_feedback(table, skip, req.page_size,
                          ServiceFilters(req, start_dt.value, end_dt.value))}

\* GET /feedback/{feedback_id}: get_feedback_by_id (lines 109-123)
get_feedback_by_id_route(table, feedback_id) ==
    IF \E i \in DOMAIN table : table[i].id = feedback_id
    THEN [resp |-> Ok(200), raised |-> None,
          body |-> <<table[CHOOSE i \in DOMAIN table : table[i].id = feedback_id]>>,
          events |-> <<>>, resolved |-> <<>>]
    ELSE [resp |-> not_found_handler("Feedback not found"),
          raised |-> "FeedbackNotFoundError", body |-> <<>>,
          events |-> <<>>, resolved |-> <<>>]

\* timedelta(days=7) of get_stats, in ticks of the clock
RECENT_DAYS == 7

\* a key that leaves the null sentiment as it is
StatsKeyNull(sent) == sent

\* line 129: `sent or 'unknown'`
StatsKey(sent) == IF sent = None THEN "unknown" ELSE sent

\* line 121: db.query(Feedback).count()
StatsTotalQuery(table) == Cardinality(Rows(table))

\* lines 124-129: the rows counted per sentiment, as sentiment_dict
StatsSentimentQuery(table) ==
    [k \in {StatsKey(r.sentiment) : r \in Rows(table)} |->
        Cardinality({r \in Rows(table) : StatsKey(r.sentiment) = k})]

\* lines 132-137: the rows counted per source, as source_dict
StatsSourceQuery(table) ==
    [k \in {r.source : r \in Rows(table)} |->
        Cardinality({r \in Rows(table) : r.source = k})]

\* lines 140-141: the rows created within the last RECENT_DAYS
StatsRecentQuery(table, at) ==
    Cardinality({r \in Rows(table) : r.created_at >= at - RECENT_DAYS})

\* FeedbackService.get_stats, its four queries answered from one state of
\* the table
get_stats(table, at) ==
    [total_feedback |-> StatsTotalQuery(table),
     sentiment_counts |-> StatsSentimentQuery(table),
     source_counts |-> StatsSourceQuery(table),
     recent_count |-> StatsRecentQuery(table, at)]

\* GET /feedback/stats: get_stats (lines 90-106)
get_stats_route(table, at) ==
    [resp |-> Ok(200), raised |-> None, body |-> <<get_stats(table, at)>>,
     events |-> <<>>, resolved |-> <<>>]

-----------------------------------------------------------------------------
(* The inputs of the requests and the behaviours of the collaborators *)

\* what the external model does to a classification call
AiOutcomes ==
    { [kind |-> "raise", text |-> <<>>],
      [kind |-> "text", text |-> <<"p","o","s","i","t","i","v","e">>],
      [kind |-> "text", text |-> <<" ","N","e","g","a","t","i","v","e","\n">>],
      [kind |-> "text", text |-> <<"n","e","u","t","r","a","l"," ","o","k">>],
      [kind |-> "text", text |-> <<"m","a","y","b","e">>],
      [kind |-> "text", text |-> <<" ">>] }

\* what the external model does to a summarization call
SummaryOutcomes ==
    { [kind |-> "raise", text |-> <<>>],
      [kind |-> "text", text |-> <<" ","S","l","o","w","."," ">>] }

\* a collaborator that the request did not reach
Unused == [kind |-> "unused", text |-> <<>>]

DbOutcomes == {"ok", "commit_fails", "refresh_fails"}

\* request bodies of POST /feedback: two that pass the validation, and one
\* each with an empty text, an all-whitespace text and an unknown source
CreateRequests ==
    { [text |-> <<" ","b","a","d"," ">>, source |-> "survey", metadata |-> None],
      [text |-> <<"G","o","o","d">>, source |-> "app_store",
       metadata |-> "{plan: pro}"],
      [text |-> <<>>, source |-> "survey", metadata |-> None],
      [text |-> <<" ","\n">>, source |-> "app_store", metadata |-> None],
      [text |-> <<"G","o","o","d">>, source |-> "email", metadata |-> None] }

\* a table that holds one row written before sentiments were stored
LegacyTable ==
    <<Feedback(1, <<"s","l","o","w">>, "support_ticket", None, 0, "{seeded}")>>

\* ids asked for: the rows' ids start at 1; no row ever has the id 9
IdInputs == {1, 2, 9}

FilterInputs ==
    { EmptyRequestFilters,
      [EmptyRequestFilters EXCEPT !.source = "survey"],
      [EmptyRequestFilters EXCEPT !.sentiment = "negative"],
      [EmptyRequestFilters EXCEPT !.search = <<"B","A","D">>],
      [EmptyRequestFilters EXCEPT !.start_date = DateValue("iso", 1)],
      [EmptyRequestFilters EXCEPT !.end_date = DateValue("malformed", 0)],
      [EmptyRequestFilters EXCEPT !.start_date = DateValue("malformed", 0)],
      [EmptyRequestFilters EXCEPT !.start_date = DateValue("nonstring", 0)],
      [EmptyRequestFilters EXCEPT !.source = "survey",
                                  !.end_date = DateValue("empty", 0)] }

SummarizeRequests ==
    {[feedback_ids |-> <<>>, filters |-> <<>>],
     [feedback_ids |-> << <<>> >>, filters |-> <<>>],
     [feedback_ids |-> << <<>> >>,
      filters |-> <<[EmptyRequestFilters EXCEPT !.source = "survey"]>>]}
    \cup {[feedback_ids |-> <<ids>>, filters |-> <<>>] :
             ids \in {<<1>>, <<2, 1>>, <<9>>, <<1, 9>>}}
    \cup {[feedback_ids |-> <<ids>>,
           filters |-> <<[EmptyRequestFilters EXCEPT !.source = "app_store"]>>] :
             ids \in {<<1>>, <<9>>}}
    \cup {[feedback_ids |-> <<>>, filters |-> <<f>>] : f \in FilterInputs}

ListRequests ==
    {[page |-> pg, page_size |-> sz, search |-> f.search, source |-> f.source,
      sentiment |-> f.sentiment, start_date |-> f.start_date,
      end_date |-> f.end_date] :
         pg \in 1..2, sz \in 1..2,
         f \in {EmptyRequestFilters,
                [EmptyRequestFilters EXCEPT !.source = "survey",
                                            !.sentiment = "negative"],
                [EmptyRequestFilters EXCEPT !.start_date = DateValue("iso", 1)],
                [EmptyRequestFilters EXCEPT !.end_date = DateValue("malformed", 0)],
                [EmptyRequestFilters EXCEPT !.search = <<"B","_","D">>],
                [EmptyRequestFilters EXCEPT !.source = "survey",
                                            !.start_date = DateValue("iso", 0),
                                            !.end_date = DateValue("iso", 0)]}}

Pieces ==
    { <<" ">>,
      <<"b","a","d">>,
      <<"b","a","d"," ","b","a","d">>,
      <<"B","U","G">>,
      <<"G","o","o","d">>,
      <<"l","o","v","e">>,
      <<"o","k">> }

\* the texts concatenated from at most n pieces
RECURSIVE TextsOf(_)
TextsOf(n) ==
    IF n = 0 THEN {<<>>}
    ELSE TextsOf(n - 1) \cup {t \o p : t \in TextsOf(n - 1), p \in Pieces}

\* a text longer than the snippet sent to the external model, whose only
\* keyword lies behind the first SNIPPET_LEN characters
LongText ==
    [i \in 1..(SNIPPET_LEN + 3) |->
        IF i <= SNIPPET_LEN THEN "x" ELSE <<"b","a","d">>[i - SNIPPET_LEN]]

TextInputs == TextsOf(MaxPieces) \cup {LongText}

\* texts of feedback rows handed to the summarizer
SummaryTexts ==
    { <<"s","l","o","w">>, <<"G","o","o","d">>, <<"o","k">> }

\* the lists of at most n texts
RECURSIVE TextListsOf(_)
TextListsOf(n) ==
    IF n = 0 THEN {<<>>}
    ELSE TextListsOf(n - 1)
         \cup {Append(l, t) : l \in {m \in TextListsOf(n - 1) : Len(m) = n - 1},
                              t \in SummaryTexts}

TextLists == TextListsOf(MaxTexts)

\* the values MAX_FEEDBACK_FOR_SUMMARY is configured with
SummaryCaps == 1..MaxTexts

\* the context dicts handed to the summarizer
SummaryContexts ==
    {EmptyRequestFilters, [EmptyRequestFilters EXCEPT !.source = "survey"]}

-----------------------------------------------------------------------------
(* The state machine of the service: one action per operation *)

NoRequest ==
    [op |-> "none", req |-> <<>>, ai |-> Unused, db |-> "unused",
     resp |-> Ok(0), raised |-> None, body |-> <<>>, events |-> <<>>,
     resolved |-> <<>>]

Observed(op, req, ai, db, r) ==
    [op |-> op, req |-> req, ai |-> ai, db |-> db, resp |-> r.resp,
     raised |-> r.raised, body |-> r.body, events |-> r.events,
     resolved |-> r.resolved]

SmzIdle ==
    [phase |-> "idle", feedback_texts |-> <<>>, context |-> EmptyRequestFilters,
     cap |-> MAX_FEEDBACK_FOR_SUMMARY, out |-> Unused,
     result |-> [value |-> <<>>, raised |-> None, calls |-> <<>>]]

\* no get_stats is in progress
StatsIdle ==
    [pc |-> "idle", total |-> 0, sentiment_dict |-> <<>>, source_dict |-> <<>>,
     recent_count |-> 0, result |-> <<>>]

ClsIdle ==
    [phase |-> "idle", text |-> <<>>, out |-> Unused,
     result |-> [value |-> None, raised |-> None, calls |-> <<>>]]

\* the service starts on an empty table, or on a table with a legacy row
Init ==
    /\ \/ store = <<>> /\ nextId = 1
       \/ store = LegacyTable /\ nextId = 2
    /\ now = 0
    /\ last = NoRequest
    /\ cls = ClsIdle
    /\ smz = SmzIdle
    /\ stats = StatsIdle

\* the database clock advances
Tick ==
    /\ last.op = "none"
    /\ now < MaxTime
    /\ now' = now + 1
    /\ UNCHANGED <<store, nextId, last, cls, smz, stats>>

\* the table and the observation after a create that did r
Created(req, out, db, r) ==
    /\ store' = r.table
    /\ nextId' = r.seq
    /\ last' = Observed("create", req,
                        IF r.events # <<>> THEN out ELSE Unused,
                        IF r.events # <<>> THEN db ELSE "unused", r)

\* POST /feedback
CreateFeedback ==
    /\ last.op = "none"
    /\ Len(store) < MaxRecords
    /\ \E req \in CreateRequests, out \in AiOutcomes, db \in DbOutcomes :
          Created(req, out, db,
                  create_feedback_route(store, nextId, now, req, out, db))
    /\ UNCHANGED <<now, cls, smz, stats>>

\* the table and the observation after a re-classification that did r
Reclassified(feedback_id, out, r) ==
    /\ store' = r.table
    /\ last' = Observed("reclassify", feedback_id,
                        IF r.events # <<>> THEN out ELSE Unused, "unused",
                        [resp |-> Ok(0), raised |-> r.raised, body |-> r.value,
                         events |-> r.events, resolved |-> <<>>])

\* FeedbackService.analyze_sentiment_for_feedback
Reclassify ==
    /\ last.op = "none"
    /\ \E feedback_id \in IdInputs, out \in AiOutcomes :
          Reclassified(feedback_id, out,
                       analyze_sentiment_for_feedback(store, feedback_id, out))
    /\ UNCHANGED <<nextId, now, cls, smz, stats>>

\* GET /feedback
ListFeedback ==
    /\ last.op = "none"
    /\ \E req \in ListRequests :
          \E r \in get_feedback_route(store, req) :
             last' = Observed("list", req, Unused, "unused", r)
    /\ UNCHANGED <<store, nextId, now, cls, smz, stats>>

\* GET /feedback/{feedback_id}
GetFeedback ==
    /\ last.op = "none"
    /\ \E feedback_id \in IdInputs :
          last' = Observed("get", feedback_id, Unused, "unused",
                           get_feedback_by_id_route(store, feedback_id))
    /\ UNCHANGED <<store, nextId, now, cls, smz, stats>>

\* GET /feedback/stats
GetStats ==
    /\ last.op = "none"
    /\ last' = Observed("stats", <<>>, Unused, "unused", get_stats_route(store, now))
    /\ UNCHANGED <<store, nextId, now, cls, smz, stats>>

\* POST /feedback/summarize
Summarize ==
    /\ last.op = "none"
    /\ \E req \in SummarizeRequests, out \in SummaryOutcomes :
          \E r \in summarize_feedback_route(store, req, out) :
             last' = Observed("summarize", req,
                              IF r.events # <<>> THEN out ELSE Unused, "unused", r)
    /\ UNCHANGED <<store, nextId, now, cls, smz, stats>>

\* the response is delivered to the caller and the next request is taken
Deliver ==
    /\ last.op # "none"
    /\ last' = NoRequest
    /\ UNCHANGED <<store, nextId, now, cls, smz, stats>>

Next ==
    \/ Tick
    \/ Deliver
    \/ CreateFeedback
    \/ Reclassify
    \/ ListFeedback
    \/ GetFeedback
    \/ GetStats
    \/ Summarize

Spec == Init /\ [][Next]_vars

-----------------------------------------------------------------------------
(* The classifier alone, over every input text and every behaviour of the   *)
(* external model                                                           *)

InitClassify ==
    /\ store = <<>>
    /\ nextId = 1
    /\ now = 0
    /\ last = NoRequest
    /\ smz = SmzIdle
    /\ stats = StatsIdle
    /\ \E text \in TextInputs, out \in AiOutcomes :
          cls = [ClsIdle EXCEPT !.phase = "called", !.text = text, !.out = out]

\* AIService.analyze_sentiment returns (or raises) to its caller
Classify ==
    /\ cls.phase = "called"
    /\ cls' = [cls EXCEPT !.phase = "returned",
                          !.result = analyze_sentiment(cls.text, cls.out)]
    /\ UNCHANGED <<store, nextId, now, last, smz, stats>>

NextClassify == Classify

SpecClassify == InitClassify /\ [][NextClassify]_vars

-----------------------------------------------------------------------------
(* The summarizer alone, over lists of texts, configured caps and every      *)
(* behaviour of the external model                                          *)

InitSummarize ==
    /\ store = <<>>
    /\ nextId = 1
    /\ now = 0
    /\ last = NoRequest
    /\ cls = ClsIdle
    /\ stats = StatsIdle
    /\ \E feedback_texts \in TextLists, context \in SummaryContexts,
          cap \in SummaryCaps, out \in SummaryOutcomes :
          smz = [SmzIdle EXCEPT !.phase = "called",
                                !.feedback_texts = feedback_texts,
                                !.context = context, !.cap = cap, !.out = out]

\* AIService.summarize_feedback returns (or raises) to its caller
SummarizeTexts ==
    /\ smz.phase = "called"
    /\ smz' = [smz EXCEPT !.phase = "returned",
                          !.result = SummarizeCapped(smz.feedback_texts, smz.context,
                                                     smz.out, smz.cap)]
    /\ UNCHANGED <<store, nextId, now, last, cls, stats>>

NextSummarize == SummarizeTexts

SpecSummarize == InitSummarize /\ [][NextSummarize]_vars

-----------------------------------------------------------------------------
(* get_stats query by query.  The handlers of one server process run one     *)
(* after the other, as in Spec; the table is a PostgreSQL database that      *)
(* other server processes write to, and the engine sets no isolation level,  *)
(* so each query of get_stats reads what is committed when it runs.  Here    *)
(* CreateFeedback and Deliver are the creates of another process.            *)

\* get_stats is called
StatsCall ==
    /\ stats.pc = "idle"
    /\ stats' = [StatsIdle EXCEPT !.pc = "total"]
    /\ UNCHANGED <<store, nextId, now, last, cls, smz>>

\* line 121
StatsTotal ==
    /\ stats.pc = "total"
    /\ stats' = [stats EXCEPT !.pc = "sentiment", !.total = StatsTotalQuery(store)]
    /\ UNCHANGED <<store, nextId, now, last, cls, smz>>

\* lines 124-129
StatsSentiment ==
    /\ stats.pc = "sentiment"
    /\ stats' = [stats EXCEPT !.pc = "source",
                              !.sentiment_dict = StatsSentimentQuery(store)]
    /\ UNCHANGED <<store, nextId, now, last, cls, smz>>

\* lines 132-137
StatsSource ==
    /\ stats.pc = "source"
    /\ stats' = [stats EXCEPT !.pc = "recent",
                              !.source_dict = StatsSourceQuery(store)]
    /\ UNCHANGED <<store, nextId, now, last, cls, smz>>

\* lines 140-141
StatsRecent ==
    /\ stats.pc = "recent"
    /\ stats' = [stats EXCEPT !.pc = "return",
                              !.recent_count = StatsRecentQuery(store, now)]
    /\ UNCHANGED <<store, nextId, now, last, cls, smz>>

\* lines 143-148: the dict returned
StatsReturn ==
    /\ stats.pc = "return"
    /\ stats' = [stats EXCEPT !.pc = "done",
                              !.result = <<[total_feedback |-> stats.total,
                                            sentiment_counts |-> stats.sentiment_dict,
                                            source_counts |-> stats.source_dict,
                                            recent_count |-> stats.recent_count]>>]
    /\ UNCHANGED <<store, nextId, now, last, cls, smz>>

\* the response is delivered and the next stats request is taken
StatsDeliver ==
    /\ stats.pc = "done"
    /\ stats' = StatsIdle
    /\ UNCHANGED <<store, nextId, now, last, cls, smz>>

NextStats ==
    \/ Tick
    \/ CreateFeedback
    \/ Deliver
    \/ StatsCall
    \/ StatsTotal
    \/ StatsSentiment
    \/ StatsSource
    \/ StatsRecent
    \/ StatsReturn
    \/ StatsDeliver

SpecStats == Init /\ [][NextStats]_vars

-----------------------------------------------------------------------------
(* Properties *)

\* the events of the request handled last that are calls of the external model
AiCallsOf(events) ==
    {i \in DOMAIN events : events[i].kind \in {"classify", "summarize"}}

InsertsOf(events) == {i \in DOMAIN events : events[i].kind = "insert"}

\* C1: for every text and every outcome of the external model call (a valid
\* label, a malformed answer, an empty answer, a raised error),
\* analyze_sentiment returns positive, negative or neutral and raises nothing.
C1_ClassifierTotal ==
    cls.phase = "returned" =>
        /\ cls.result.raised = None
        /\ cls.result.value \in {"positive", "negative", "neutral"}

\* C1 witness: the model answered without any token (the IndexError path) on a
\* text with a negative keyword, and the classifier returned negative.
C1_Witness ==
    /\ cls.phase = "returned"
    /\ cls.out.kind = "text" /\ Strip(cls.out.text) = <<>>
    /\ Len(cls.result.calls) = 1
    /\ cls.result.raised = None
    /\ cls.result.value = "negative"

\* C2: a create whose source is outside the valid sources, or whose text is
\* empty after trimming, fails with ValueError (InvalidArgument) before any
\* external call and before any write; the table and the key sequence are the
\* same after the request as before it.
C2_InvalidCreateLeavesStore ==
    [][(/\ last.op = "none"
        /\ last'.op = "create"
        /\ \/ last'.req.source \notin VALID_SOURCES
           \/ Strip(last'.req.text) = <<>>)
       => /\ last'.raised = "ValueError"
          /\ last'.events = <<>>
          /\ last'.body = <<>>
          /\ store' = store
          /\ nextId' = nextId]_vars

\* C2 witness: a create with an unknown source and a non-empty text was
\* rejected with ValueError on a table that holds rows.
C2_Witness ==
    /\ last.op = "create"
    /\ last.req.source \notin VALID_SOURCES
    /\ Strip(last.req.text) # <<>>
    /\ last.raised = "ValueError"
    /\ last.events = <<>>
    /\ Len(store) = MaxRecords - 1

\* C3: an InvalidArgument failure of create (the service's ValueError for an
\* invalid source or an empty text) reaches the caller as a client error.
C3_InvalidCreateIsClientError ==
    (last.op = "create" /\ last.raised = "ValueError") => ClientError(last.resp)

\* a label of the valid sentiments as it is, any other value as neutral
LabelOrNeutral(label) ==
    IF label \in VALID_SENTIMENTS THEN label ELSE "neutral"

\* C4: in a create that writes, the classifier call comes before the write,
\* the row carries the label the classifier returned (neutral when that label
\* is no valid sentiment), never a missing one; a create that answers 201 wrote.
C4_ClassifyBeforeWrite ==
    last.op = "create" =>
        /\ last.resp.status = 201 => InsertsOf(last.events) # {}
        /\ \A i \in InsertsOf(last.events) :
              /\ \E j \in AiCallsOf(last.events) : j < i
              /\ last.events[i].row.sentiment =
                    LabelOrNeutral(analyze_sentiment(last.req.text, last.ai).value)
              /\ last.events[i].row.sentiment \in VALID_SENTIMENTS
              /\ last.events[i].row \in Rows(store)

\* C4 witness: a create answered 201 after the model gave an answer that is
\* no label, and the row carries the fallback's label positive.
C4_Witness ==
    /\ last.op = "create"
    /\ last.resp.status = 201
    /\ last.ai.kind = "text"
    /\ last.ai.text = <<"m","a","y","b","e">>
    /\ last.events[1].kind = "classify"
    /\ last.events[2].kind = "insert"
    /\ last.events[2].row.sentiment = "positive"
    /\ last.body = <<last.events[2].row>>

\* C5: every stored row has an id no other row has, a valid source, a
\* sentiment that is positive, negative, neutral or null, and a non-empty
\* text without leading or trailing whitespace.
C5_StoredRowsWellFormed ==
    \A i \in DOMAIN store :
        /\ \A j \in DOMAIN store : store[i].id = store[j].id => i = j
        /\ store[i].source \in VALID_SOURCES
        /\ store[i].sentiment \in VALID_SENTIMENTS \cup {None}
        /\ store[i].text # <<>>
        /\ ~IsSpace(store[i].text[1])
        /\ ~IsSpace(store[i].text[Len(store[i].text)])

\* C5 witness: from the empty table, a text submitted with surrounding
\* whitespace was stored trimmed, a second row was created, and a row was
\* re-classified.
C5_Witness ==
    /\ Len(store) = 2
    /\ store[1].id = 1 /\ store[2].id = 2
    /\ store[1].extra_data # "{seeded}"
    /\ \E i \in DOMAIN store : store[i].text = <<"b","a","d">>
    /\ last.op = "reclassify"
    /\ last.body # <<>>

\* the rows of the table that a filter dict with well-formed dates selects
MatchingRows(filters) ==
    {r \in Rows(store) :
        Matches(r, ServiceFilters(filters, ParseDate(filters.start_date).value,
                                  ParseDate(filters.end_date).value))}

\* the dates of a filter dict are absent or well formed
DatesParse(filters) ==
    /\ ParseDate(filters.start_date).exc = None
    /\ ParseDate(filters.end_date).exc = None

\* items is rows of S, without repetition, most recent first, as many as the
\* cap allows, and no row of S left out is more recent than a row taken
MostRecentUpTo(items, S, cap) ==
    /\ \A i \in DOMAIN items : items[i] \in S
    /\ \A i, j \in DOMAIN items : i < j =>
          /\ items[i] # items[j]
          /\ items[i].created_at >= items[j].created_at
    /\ Len(items) = (IF Cardinality(S) < cap THEN Cardinality(S) ELSE cap)
    /\ \A r \in S : (\A i \in DOMAIN items : items[i] # r) =>
          \A i \in DOMAIN items : items[i].created_at >= r.created_at

\* the rows that have one of the ids of a list
RowsWithIds(ids) == {r \in Rows(store) : \E k \in DOMAIN ids : ids[k] = r.id}

SeqToSet(s) == {s[i] : i \in DOMAIN s}

RECURSIVE SumOver(_, _)
SumOver(f, S) ==
    IF S = {} THEN 0
    ELSE LET k == CHOOSE x \in S : TRUE IN f[k] + SumOver(f, S \ {k})

\* C6: no step removes a row or changes the id, text, source, created_at or
\* metadata of a row; a re-classification changes at most the sentiment of
\* the row it targets and adds no row; list, get, stats and summarize leave
\* the table as it is.
C6_RowsAreKept ==
    [][/\ Len(store') >= Len(store)
       /\ \A i \in DOMAIN store :
             /\ store'[i].id = store[i].id
             /\ store'[i].text = store[i].text
             /\ store'[i].source = store[i].source
             /\ store'[i].created_at = store[i].created_at
             /\ store'[i].extra_data = store[i].extra_data
       /\ last'.op = "create" =>
             \A i \in DOMAIN store : store'[i] = store[i]
       /\ last'.op = "reclassify" =>
             /\ Len(store') = Len(store)
             /\ \A i \in DOMAIN store :
                   store'[i] # store[i] => store[i].id = last'.req
       /\ last'.op \in {"list", "get", "stats", "summarize"} =>
             store' = store]_vars

\* C6 witness: the re-classification of the legacy row gave it a sentiment
\* while a second row is in the table.
C6_Witness ==
    /\ last.op = "reclassify"
    /\ last.req = 1
    /\ Len(store) = 2
    /\ store[1].extra_data = "{seeded}"
    /\ store[1].sentiment = "negative"

\* C7: a summarize with a non-empty id list none of whose ids is in the table
\* fails with 404 (NotFound); a summarize by filters, or with neither ids nor
\* filters, that selects no row fails with 400 (InvalidArgument); in both
\* cases the external model is not called.
C7_EmptyResolution ==
    last.op = "summarize" =>
        LET ids == last.req.feedback_ids
            fl == last.req.filters
            noIds == ids = <<>> \/ ids[1] = <<>>
        IN  /\ (~noIds /\ RowsWithIds(ids[1]) = {}) =>
                  /\ last.resp.status = 404
                  /\ AiCallsOf(last.events) = {}
            /\ (noIds /\ fl # <<>> /\ DatesParse(fl[1])
                      /\ MatchingRows(fl[1]) = {}) =>
                  /\ last.resp.status = 400
                  /\ AiCallsOf(last.events) = {}
            /\ (noIds /\ fl = <<>> /\ store = <<>>) =>
                  /\ last.resp.status = 400
                  /\ AiCallsOf(last.events) = {}

\* C7 witness: ids of no row were asked for together with a filter that
\* selects a row of the table, and the answer is 404.
C7_Witness ==
    /\ last.op = "summarize"
    /\ last.req.feedback_ids = << <<9>> >>
    /\ last.req.filters # <<>>
    /\ MatchingRows(last.req.filters[1]) # {}
    /\ last.resp.status = 404
    /\ last.events = <<>>

\* the resolved set of a summarize whose mode is taken from ids when UseIds
\* holds, else from the filters when a filter dict is given, else from none
ResolvedAsChosen(useIds) ==
    LET ids == last.req.feedback_ids
        fl == last.req.filters
    IN  IF useIds
        THEN /\ SeqToSet(last.resolved) = RowsWithIds(ids[1])
             /\ Len(last.resolved) = Cardinality(RowsWithIds(ids[1]))
        ELSE IF fl # <<>>
        THEN DatesParse(fl[1]) =>
                MostRecentUpTo(last.resolved, MatchingRows(fl[1]),
                               MAX_FEEDBACK_FOR_SUMMARY)
        ELSE MostRecentUpTo(last.resolved, Rows(store), MAX_FEEDBACK_FOR_SUMMARY)

\* C8 as stated: whenever an id list is supplied the resolved set is the
\* rows with those ids; otherwise, with a filter dict, the matching rows, most
\* recent first, up to the cap; otherwise the most recent rows up to the cap.
C8_IdListSupplied ==
    last.op = "summarize" => ResolvedAsChosen(last.req.feedback_ids # <<>>)

\* C8 amended: when a non-empty id list is supplied the resolved set is the
\* rows with those ids and the filters play no part; otherwise (no id list,
\* or an empty one), with a filter dict, the matching rows, most recent first,
\* up to the cap; otherwise the most recent rows up to the cap.
C8_NonEmptyIdList ==
    last.op = "summarize" =>
        ResolvedAsChosen(last.req.feedback_ids # <<>> /\ last.req.feedback_ids[1] # <<>>)

\* C8 witness: the id of a row was asked for together with a filter the row
\* does not match, and the row is the resolved set.
C8_Witness ==
    /\ last.op = "summarize"
    /\ last.req.feedback_ids = << <<1>> >>
    /\ last.req.filters # <<>>
    /\ MatchingRows(last.req.filters[1]) # {}
    /\ Len(last.resolved) = 1
    /\ last.resolved[1].id = 1
    /\ last.resolved[1] \notin MatchingRows(last.req.filters[1])
    /\ last.resp.status = 200

\* C9: when the external call of a summarization fails, the summarizer raises
\* AIServiceError, no summary is returned, and the caller gets the
\* service-unavailable answer, which is not the internal-error answer.
C9_SummarizeFailureSurfaces ==
    (last.op = "summarize" /\ last.ai.kind = "raise") =>
        /\ last.raised = "AIServiceError"
        /\ last.body = <<>>
        /\ last.resp.status = 503
        /\ last.resp.type = "ai_service_error"
        /\ last.resp # generic_exception_handler

\* C9 witness: rows were resolved, the model was called once and raised.
C9_Witness ==
    /\ last.op = "summarize"
    /\ last.ai.kind = "raise"
    /\ last.resolved # <<>>
    /\ Len(last.events) = 1
    /\ last.resp.status = 503

\* C10: a summarize that answers 200 returns as feedback_count the size of
\* the resolved set, and as sentiment_breakdown the number of resolved rows
\* per label, null counted as "unknown", so that the counts add up to
\* feedback_count, also when fewer texts were sent to the model.
C10_BreakdownOverResolved ==
    (last.op = "summarize" /\ last.resp.status = 200) =>
        LET b == last.body[1]
            label(r) == IF r.sentiment = None THEN "unknown" ELSE r.sentiment
            with(k) == {i \in DOMAIN last.resolved : label(last.resolved[i]) = k}
        IN  /\ b.feedback_count = Len(last.resolved)
            /\ DOMAIN b.sentiment_breakdown =
                  {label(last.resolved[i]) : i \in DOMAIN last.resolved}
            /\ \A k \in DOMAIN b.sentiment_breakdown :
                  b.sentiment_breakdown[k] = Cardinality(with(k))
            /\ SumOver(b.sentiment_breakdown, DOMAIN b.sentiment_breakdown)
                  = b.feedback_count

\* C10 witness: two rows were resolved, one of them without a sentiment, and
\* one text was sent to the model.
C10_Witness ==
    /\ last.op = "summarize"
    /\ last.resp.status = 200
    /\ Len(last.resolved) = 2
    /\ \E i \in DOMAIN last.resolved : last.resolved[i].sentiment = None
    /\ Len(last.events[1].texts) = 1
    /\ last.body[1].feedback_count = 2

\* C11: a summarization of more texts than the configured cap N sends, in one
\* call, exactly the first N texts in their input order, numbered from 1; of
\* at most N texts it sends all of them in input order.
C11_FirstTextsSent ==
    (smz.phase = "returned" /\ smz.feedback_texts # <<>>) =>
        LET n == IF Len(smz.feedback_texts) > smz.cap
                 THEN smz.cap ELSE Len(smz.feedback_texts)
            sent == smz.result.calls
        IN  /\ Len(sent) = 1
            /\ sent[1].kind = "summarize"
            /\ Len(sent[1].texts) = n
            /\ Len(sent[1].block) = n
            /\ \A i \in 1..n :
                  /\ sent[1].texts[i] = smz.feedback_texts[i]
                  /\ sent[1].block[i] = [number |-> i, text |-> smz.feedback_texts[i]]

\* C11 witness: three texts, the first two different, were given under the
\* cap 2, and two were sent.
C11_Witness ==
    /\ smz.phase = "returned"
    /\ Len(smz.feedback_texts) = 3
    /\ smz.cap = 2
    /\ smz.feedback_texts[1] # smz.feedback_texts[2]
    /\ smz.feedback_texts[3] # smz.feedback_texts[2]
    /\ Len(smz.result.calls) = 1
    /\ Len(smz.result.calls[1].texts) = 2

\* C12: a summarization of an empty list of texts returns the fixed message,
\* calls the external model not at all and raises nothing.
C12_EmptyListSentinel ==
    (smz.phase = "returned" /\ smz.feedback_texts = <<>>) =>
        /\ smz.result.value = NO_FEEDBACK_MESSAGE
        /\ smz.result.calls = <<>>
        /\ smz.result.raised = None

\* C12 witness: the empty list was summarized while the external model would
\* have raised, and the fixed message came back.
C12_Witness ==
    /\ smz.phase = "returned"
    /\ smz.feedback_texts = <<>>
    /\ smz.out.kind = "raise"
    /\ smz.result.value = NO_FEEDBACK_MESSAGE
    /\ smz.result.raised = None

\* C13: analyze_sentiment on a text that is empty or holds only whitespace
\* returns neutral and does not call the external model.
C13_BlankTextNeutral ==
    (cls.phase = "returned" /\ \A i \in DOMAIN cls.text : IsSpace(cls.text[i])) =>
        /\ cls.result.value = "neutral"
        /\ cls.result.calls = <<>>
        /\ cls.result.raised = None

\* C13 witness: a text of whitespace only came back neutral without a call,
\* where the external model would have answered positive.
C13_Witness ==
    /\ cls.phase = "returned"
    /\ cls.text # <<>>
    /\ \A i \in DOMAIN cls.text : IsSpace(cls.text[i])
    /\ cls.out.kind = "text"
    /\ cls.out.text = <<"p","o","s","i","t","i","v","e">>
    /\ cls.result.value = "neutral"
    /\ cls.result.calls = <<>>

\* the number of places of s at which sub occurs
Occurrences(s, sub) ==
    Cardinality({i \in 1..(Len(s) - Len(sub) + 1) : SubSeq(s, i, i + Len(sub) - 1) = sub})

\* the label of a vote of negative_count against positive_count
VoteOf(negative_count, positive_count) ==
    IF negative_count > positive_count THEN "negative"
    ELSE IF positive_count > negative_count THEN "positive"
    ELSE "neutral"

\* the classifier called the external model, which raised or gave an answer
\* whose first token is no valid label
FallbackApplies ==
    /\ cls.phase = "returned"
    /\ cls.result.calls # <<>>
    /\ \/ cls.out.kind = "raise"
       \/ Split(Lower(Strip(cls.out.text))) = <<>>
       \/ \A l \in VALID_SENTIMENTS :
             LabelChars(l) # Split(Lower(Strip(cls.out.text)))[1]

\* C19 as stated: the fallback counts the occurrences of the negative and of
\* the positive keywords in the lower-cased full text and returns the label of
\* the larger count, neutral when the counts are equal.
C19_OccurrenceVote ==
    FallbackApplies =>
        cls.result.value =
            VoteOf(SumOver([k \in negative_keywords |-> Occurrences(Lower(cls.text), k)],
                           negative_keywords),
                   SumOver([k \in positive_keywords |-> Occurrences(Lower(cls.text), k)],
                           positive_keywords))

\* C19 amended: the fallback counts the negative keywords and the positive
\* keywords that occur at least once as a substring of the lower-cased full
\* text, each keyword once however often it occurs, and returns the label of
\* the larger count, neutral when the counts are equal.
C19_KeywordVote ==
    FallbackApplies =>
        /\ cls.result.raised = None
        /\ cls.result.value =
              VoteOf(Cardinality({k \in negative_keywords : Contains(Lower(cls.text), k)}),
                     Cardinality({k \in positive_keywords : Contains(Lower(cls.text), k)}))

\* C19 witness: the external call raised on a text in which one negative
\* keyword occurs twice and one positive keyword once, and the vote is a tie.
C19_Witness ==
    /\ FallbackApplies
    /\ cls.out.kind = "raise"
    /\ Occurrences(Lower(cls.text), <<"b","a","d">>) = 2
    /\ Occurrences(Lower(cls.text), <<"g","o","o","d">>) = 1
    /\ cls.result.value = "neutral"

\* C14: a list request for page p (p >= 1) of size s on a table with K rows
\* matching the filters returns min(s, max(0, K - (p-1)*s)) items, and the
\* total returned is K on every page.
C14_PageSizes ==
    (last.op = "list" /\ last.resp.status = 200) =>
        LET K == Cardinality(MatchingRows(last.req))
            rest == K - (last.req.page - 1) * last.req.page_size
            atLeast0 == IF rest < 0 THEN 0 ELSE rest
        IN  /\ Len(last.body[1].items) =
                  (IF last.req.page_size < atLeast0 THEN last.req.page_size ELSE atLeast0)
            /\ last.body[1].total = K

\* C14 witness: the second page of size 1 of two matching rows holds the one
\* row left and the total is two.
C14_Witness ==
    /\ last.op = "list"
    /\ last.resp.status = 200
    /\ last.req.page = 2 /\ last.req.page_size = 1
    /\ Cardinality(MatchingRows(last.req)) = 2
    /\ Len(last.body[1].items) = 1
    /\ last.body[1].total = 2

\* a row satisfies the filters of a list request as the filters are
\* described: the search text is a substring of the text whatever the case,
\* source and sentiment are equal, created_at lies within the inclusive bounds
Satisfies(r, req) ==
    /\ req.search # <<>> => Contains(Lower(r.text), Lower(req.search))
    /\ req.source # None => r.source = req.source
    /\ req.sentiment # None => r.sentiment = req.sentiment
    /\ ParseDate(req.start_date).value # <<>> =>
          r.created_at >= ParseDate(req.start_date).value[1]
    /\ ParseDate(req.end_date).value # <<>> =>
          r.created_at <= ParseDate(req.end_date).value[1]

\* C15: a query returns only rows that satisfy every filter supplied (text
\* substring, source, sentiment, start date, end date), the date bounds being
\* inclusive: with room on the page, a row that satisfies them, also one whose
\* created_at equals a bound, is returned.
C15_FiltersConjunctive ==
    (last.op = "list" /\ last.resp.status = 200) =>
        /\ \A i \in DOMAIN last.body[1].items :
              Satisfies(last.body[1].items[i], last.req)
        /\ last.req.page = 1 =>
              \A r \in Rows(store) :
                 (Satisfies(r, last.req) /\ last.body[1].total <= last.req.page_size)
                    => \E i \in DOMAIN last.body[1].items : last.body[1].items[i] = r

\* C16: in every state of the table, the values of the sentiment_counts of
\* stats add up to total_feedback, and the rows without a sentiment are
\* counted under the key "unknown".
C16_SentimentCountsSum ==
    last.op = "stats" =>
        LET s == last.body[1]
            nulls == {i \in DOMAIN store : store[i].sentiment = None}
        IN  /\ s.total_feedback = Len(store)
            /\ SumOver(s.sentiment_counts, DOMAIN s.sentiment_counts) = s.total_feedback
            /\ None \notin DOMAIN s.sentiment_counts
            /\ nulls # {} =>
                  /\ "unknown" \in DOMAIN s.sentiment_counts
                  /\ s.sentiment_counts["unknown"] = Cardinality(nulls)
            /\ \A k \in DOMAIN s.sentiment_counts \ {"unknown"} :
                  s.sentiment_counts[k] =
                     Cardinality({i \in DOMAIN store : store[i].sentiment = k})

\* C16 witness: stats of a table with one row without a sentiment and one
\* row with a label.
C16_Witness ==
    /\ last.op = "stats"
    /\ Len(store) = 2
    /\ \E i \in DOMAIN store : store[i].sentiment = None
    /\ \E i \in DOMAIN store : store[i].sentiment \in VALID_SENTIMENTS
    /\ last.body[1].sentiment_counts["unknown"] = 1
    /\ last.body[1].total_feedback = 2

\* C17: the re-classification of an id that no row has returns nothing,
\* raises nothing, calls the external model not at all and leaves the table
\* as it is; of an id that a row has, it calls the classifier once on the
\* stored text and commits the label returned as that row's sentiment.
C17_ReclassifyLookup ==
    [][(last.op = "none" /\ last'.op = "reclassify") =>
          IF \A i \in DOMAIN store : store[i].id # last'.req
          THEN /\ last'.body = <<>>
               /\ last'.raised = None
               /\ last'.events = <<>>
               /\ store' = store
          ELSE \A i \in DOMAIN store : store[i].id = last'.req =>
                  /\ last'.raised = None
                  /\ Len(last'.events) = 2
                  /\ last'.events[1].kind = "classify"
                  /\ last'.events[1].texts = <<store[i].text>>
                  /\ last'.events[2].kind = "update"
                  /\ store'[i].sentiment =
                        analyze_sentiment(store[i].text, last'.ai).value
                  /\ last'.body = <<store'[i]>>]_vars

\* C17 witness: an id that no row has was re-classified on a table that
\* holds rows, and nothing came back.
C17_Witness ==
    /\ last.op = "reclassify"
    /\ last.req = 9
    /\ Len(store) = MaxRecords
    /\ last.body = <<>>
    /\ last.raised = None
    /\ last.events = <<>>

\* a date of a filter dict holds a value that is no well-formed ISO-8601 date
NotWellFormed(v) == v.form \notin {"absent", "iso"}

\* C18: in a summarize by filters, every start_date or end_date value that is
\* no well-formed ISO-8601 date fails with a client error (InvalidArgument),
\* before any query of the table and before any call of the external model.
C18_MalformedDateIsClientError ==
    (/\ last.op = "summarize"
     /\ SummarizeUsesFilters(last.req)
     /\ \/ NotWellFormed(last.req.filters[1].start_date)
        \/ NotWellFormed(last.req.filters[1].end_date))
    => /\ ClientError(last.resp)
       /\ last.events = <<>>
       /\ last.resolved = <<>>

\* C20: in a create, the text the classifier is called on and cuts to its
\* first SNIPPET_LEN characters is the trimmed text, the one that is stored:
\* it has no leading or trailing whitespace of the submitted text.
C20_ClassifierSeesTrimmedText ==
    last.op = "create" =>
        \A i \in DOMAIN last.events : last.events[i].kind = "classify" =>
            /\ last.events[i].texts = <<Take(Strip(last.req.text), SNIPPET_LEN)>>
            /\ ~IsSpace(last.events[i].texts[1][1])
            /\ ~IsSpace(last.events[i].texts[1][Len(last.events[i].texts[1])])

\* C21: stats returns a consistent snapshot under concurrency: when a create
\* commits while a stats request is between its count queries, the
\* sentiment_counts and the source_counts returned still each add up to the
\* total_feedback returned, and recent_count is at most total_feedback.
C21_StatsSnapshot ==
    stats.pc = "done" =>
        LET s == stats.result[1]
        IN  /\ SumOver(s.sentiment_counts, DOMAIN s.sentiment_counts) = s.total_feedback
            /\ SumOver(s.source_counts, DOMAIN s.source_counts) = s.total_feedback
            /\ s.recent_count <= s.total_feedback

====
